---- MODULE Spec2Model ----
(***************************************************************************)
(* The draft/publish collections of the blog's Eleventy configuration.     *)
(*                                                                         *)
(* Two versions of the configuration are modelled side by side:            *)
(*   "eleventy" : src/.eleventy.js                                         *)
(*   "part000"  : src/unnamed/part_000                                     *)
(* One behaviour is one Eleventy process: the configuration function runs, *)
(* the "eleventy.before" event fires before each build, the collections    *)
(* "articles" and "latestArticles" are evaluated in registration order,    *)
(* the list template renders the status badges, and a serve/watch session *)
(* builds again.  A scheduled deployment starts the build process anew.    *)
(*                                                                         *)
(* A JavaScript value is a record [type, s, n]: s is the text of a string,  *)
(* n the timestamp of a Date or 1/0 for a boolean.  An object is a         *)
(* function whose DOMAIN is the set of its keys.                           *)
(***************************************************************************)
EXTENDS Integers, Sequences, FiniteSets, TLC

VARIABLES
    version,        \* which configuration file is loaded
    runMode,        \* Eleventy's run mode: ELEVENTY_RUN_MODE / the event's runMode
    BUILD_DRAFTS,   \* process.env.BUILD_DRAFTS
    clock,          \* the current UTC instant
    items,          \* what collectionApi.getFilteredByTag("articles") returns
    pc,             \* position of the process
    build,          \* number of the build in this process
    articles,       \* the "articles" collection of the current build
    latestArticles, \* the "latestArticles" collection of the current build
    nowA,           \* the clock readings of the "articles" filter, one per item
    nowL,           \* the clock readings of the "latestArticles" filter
    envA,           \* process.env.BUILD_DRAFTS when "articles" was evaluated
    envL,           \* process.env.BUILD_DRAFTS when "latestArticles" was evaluated
    thrown,         \* the error a collection callback threw, or "none"
    hostZone,       \* the host's timezone, as its offset from UTC
    badges,         \* the badges the list template rendered, one per article
    nowR,           \* the clock readings of isDateInFuture, one per article
    listedBefore,   \* the ids "articles" held in the previous build
    tags,           \* the value a template passes to filterTagList
    tagList,        \* what filterTagList returned last
    applied         \* how many times filterTagList has been applied

vars == <<version, runMode, BUILD_DRAFTS, clock, items, pc, build,
          articles, latestArticles, nowA, nowL, envA, envL,
          thrown, hostZone, badges, nowR, listedBefore,
          tags, tagList, applied>>

----------------------------------------------------------------------------
(* Bounds *)

MaxItems == 1       \* a small site has up to MaxItems articles
MaxTime == 1        \* dates and clock readings are instants 0..MaxTime
MaxBuilds == 2      \* builds of one serve/watch session
MaxExtra == 1       \* a large site has up to LatestLimit + MaxExtra items
MaxNegative == 2    \* negative limits are -MaxNegative..-1
MaxTags == 3        \* an article has up to MaxTags tags

(* Program constant: .slice(0, 9) *)
LatestLimit == 9

----------------------------------------------------------------------------
(* JavaScript values *)

Undefined == [type |-> "undefined", s |-> "", n |-> 0]
Null == [type |-> "null", s |-> "", n |-> 0]
Bool(b) == [type |-> "boolean", s |-> "", n |-> IF b THEN 1 ELSE 0]
Str(x) == [type |-> "string", s |-> x, n |-> 0]
DateOf(t) == [type |-> "Date", s |-> "", n |-> t]

Versions == {"eleventy", "part000"}
RunModes == {"build", "serve", "watch"}

\* process.env holds strings; a key that is not set reads as undefined
EnvValues == {Undefined, Str("true"), Str("false")}

\* ToBoolean
Truthy(v) ==
    CASE v.type \in {"undefined", "null"} -> FALSE
      [] v.type = "boolean" -> v.n = 1
      [] v.type = "string" -> v.s # ""
      [] OTHER -> TRUE

\* key in object
In(key, obj) == key \in DOMAIN obj

\* object.key (undefined when the key is absent)
Get(obj, key) == IF key \in DOMAIN obj THEN obj[key] ELSE Undefined

Min(a, b) == IF a < b THEN a ELSE b
Max(a, b) == IF a > b THEN a ELSE b

----------------------------------------------------------------------------
(* Content items *)

Dates == 0..MaxTime
PublishedValues == {Bool(TRUE), Bool(FALSE), Null, Str("yes")}

\* The keys of an article's front matter: "date" and "published" are optional.
DataKeys == {{"title"} \cup opt : opt \in SUBSET {"date", "published"}}

\* A front matter date is a YAML date (a Date) or a quoted one (a string)
DateForms == {"Date", "string"}

\* article.data with the keys ks, the front matter date d in the form f and
\* the published flag p
DataOf(ks, d, p, f) ==
    [k \in ks |-> CASE k = "date" -> IF f = "Date" THEN DateOf(d)
                                                   ELSE Str("quoted date")
                    [] k = "published" -> p
                    [] OTHER -> Str("title")]

\* One article of the input: Eleventy takes item.date from the front matter
\* date when there is one (parsing a string), and from the file otherwise.
Item(i, d, ks, p, f) ==
    [id |-> i, date |-> DateOf(d), data |-> DataOf(ks, d, p, f)]

\* What an article can look like, apart from its identity.  A quoted date is
\* tried on the articles it decides about: those with published true; an
\* article without a date has published true, null or no published field.
Kinds ==
    {k \in Dates \X DataKeys \X PublishedValues \X DateForms :
        /\ "published" \notin k[2] => k[3] = Null
        /\ "date" \notin k[2] => k[3] \in {Bool(TRUE), Null}
        /\ k[4] = "string" =>
              k[2] = {"title", "date", "published"} /\ k[3] = Bool(TRUE)}

\* The item list whose i-th article has the kind ks[i]
ItemsOf(kseq) ==
    [i \in 1..Len(kseq) |->
        Item(i, kseq[i][1], kseq[i][2], kseq[i][3], kseq[i][4])]

\* All item lists of at most MaxItems articles
ItemLists == UNION {{ItemsOf(kseq) : kseq \in [1..n -> Kinds]} : n \in 0..MaxItems}

\* Long item lists: a pattern of one or two kinds with valid dates, repeated
\* past the "latestArticles" limit
LongKinds == {k \in Kinds : k[2] = {"title", "date", "published"}
                            /\ k[3] \in {Bool(TRUE), Bool(FALSE)}
                            /\ k[4] = "Date"}
Repeat(pat, n) == [i \in 1..n |-> pat[((i - 1) % Len(pat)) + 1]]
LongItemLists ==
    UNION {{ItemsOf(Repeat(pat, n)) : pat \in [1..m -> LongKinds]} :
           m \in 1..2, n \in (LatestLimit + 1)..(LatestLimit + MaxExtra)}

----------------------------------------------------------------------------
(* luxon *)

\* Mutant: the date is read in the host's timezone, which shifts its instant
fromJSDateLocal(value) ==
    IF value.type = "Date" THEN [valid |-> TRUE, ts |-> value.n + hostZone]
    ELSE [valid |-> FALSE, ts |-> 0]

\* DateTime.fromJSDate(value, {zone: "UTC"}): invalid unless value is a Date.
\* The zone changes how the instant is displayed, never the instant.
fromJSDate(value) ==
    IF value.type = "Date" THEN [valid |-> TRUE, ts |-> value.n]
    ELSE [valid |-> FALSE, ts |-> 0]

\* DateTime.utc() at the clock reading t
utc(t) == [valid |-> TRUE, ts |-> t]

\* Mutant: the comparison the other way round
GreaterEqSwapped(a, b) == a.valid /\ b.valid /\ a.ts <= b.ts

\* Mutant: the comparison is an equality
GreaterEqExact(a, b) == a.valid /\ b.valid /\ a.ts = b.ts

\* Mutant: the comparison is strict
GreaterEqStrict(a, b) == a.valid /\ b.valid /\ a.ts > b.ts

\* a >= b on DateTimes: valueOf() is NaN for an invalid DateTime, and every
\* comparison with NaN is false
GreaterEq(a, b) == a.valid /\ b.valid /\ a.ts >= b.ts

\* a > b on DateTimes
Greater(a, b) == a.valid /\ b.valid /\ a.ts > b.ts

----------------------------------------------------------------------------
(* Array.prototype *)

\* arr.filter(...) where keep[i] is the callback's result for arr[i]
RECURSIVE filterFrom(_, _, _)
filterFrom(arr, keep, i) ==
    IF i > Len(arr) THEN <<>>
    ELSE IF keep[i] THEN <<arr[i]>> \o filterFrom(arr, keep, i + 1)
    ELSE filterFrom(arr, keep, i + 1)

\* Mutant: every element kept is put into the result twice
filterTwice(arr, keep) ==
    filterFrom(arr, keep, 1) \o filterFrom(arr, keep, 1)

filter(arr, keep) == filterFrom(arr, keep, 1)

\* Mutant: the comparator of an ascending sort
sortComparatorAscending(a, b) == a.date.n - b.date.n

\* function (a, b) { return b.date - a.date; }
sortComparator(a, b) == b.date.n - a.date.n

\* Mutant: x goes before the elements it compares equal to
RECURSIVE insertSortedUnstable(_, _)
insertSortedUnstable(s, x) ==
    IF s = <<>> THEN <<x>>
    ELSE IF sortComparator(Head(s), x) < 0
         THEN <<Head(s)>> \o insertSortedUnstable(Tail(s), x)
         ELSE <<x>> \o s

\* Insert x into the sorted sequence s behind every element that does not
\* compare greater than x
RECURSIVE insertSorted(_, _)
insertSorted(s, x) ==
    IF s = <<>> THEN <<x>>
    ELSE IF sortComparator(Head(s), x) <= 0
         THEN <<Head(s)>> \o insertSorted(Tail(s), x)
         ELSE <<x>> \o s

\* arr.sort(sortComparator): the sort is stable (ECMAScript 2019)
RECURSIVE sortFrom(_, _, _)
sortFrom(arr, i, acc) ==
    IF i > Len(arr) THEN acc
    ELSE sortFrom(arr, i + 1, insertSorted(acc, arr[i]))

sort(arr) == sortFrom(arr, 1, <<>>)

\* Mutant: a negative index counts as 0
sliceIndexClamped(k, len) == IF k < 0 THEN 0 ELSE Min(k, len)

\* Relative index of slice: a negative index counts from the end
sliceIndex(k, len) == IF k < 0 THEN Max(len + k, 0) ELSE Min(k, len)

\* Mutant: the end index is taken inclusive
sliceInclusive(arr, start, end) ==
    LET from == sliceIndex(start, Len(arr))
        to == sliceIndex(end + 1, Len(arr))
    IN  IF to <= from THEN <<>> ELSE SubSeq(arr, from + 1, to)

\* arr.slice(start, end)
slice(arr, start, end) ==
    LET from == sliceIndex(start, Len(arr))
        to == sliceIndex(end, Len(arr))
    IN  IF to <= from THEN <<>> ELSE SubSeq(arr, from + 1, to)

\* arr.slice(start, end) throws: never, whatever the indices
sliceThrows(start, end) == FALSE

----------------------------------------------------------------------------
(* The collections *)

\* Mutant: both versions test the truthiness of the flag
showAllArticlesTruthy(ver, env) == Truthy(env)

\* The test of process.env.BUILD_DRAFTS in the filter callback:
\*   .eleventy.js : process.env.BUILD_DRAFTS === "true"
\*   part_000     : if (process.env.BUILD_DRAFTS)
showAllArticles(ver, env) ==
    IF ver = "eleventy" THEN env = Str("true") ELSE Truthy(env)

\* Mutant: the date is not compared
isPublishedAnyDate(article, t) ==
    /\ In("published", article.data)
    /\ Truthy(Get(article.data, "published"))

\* Mutant: the published key is enough, whatever its value
isPublishedKeyOnly(article, t) ==
    LET now == utc(t)
        articleDate == fromJSDate(Get(article.data, "date"))
    IN  /\ In("published", article.data)
        /\ GreaterEq(now, articleDate)

\* "published" in article.data && article.data?.published && now >= articleDate
isPublished(article, t) ==
    LET now == utc(t)
        articleDate == fromJSDate(Get(article.data, "date"))
    IN  /\ In("published", article.data)
        /\ Truthy(Get(article.data, "published"))
        /\ GreaterEq(now, articleDate)

\* The filter callback on one article, the clock reading t
filterCallback(ver, env, article, t) ==
    IF showAllArticles(ver, env) THEN TRUE ELSE isPublished(article, t)

\* getFilteredByTag("articles").filter(...).sort(...) with the clock
\* readings reads, one per article
selectPublished(ver, env, input, reads) ==
    sort(filter(input, [i \in 1..Len(input) |->
                            filterCallback(ver, env, input[i], reads[i])]))

\* ... .slice(0, limit)
selectLatest(ver, env, input, reads, limit) ==
    slice(selectPublished(ver, env, input, reads), 0, limit)

\* A value is an object (it has keys to look up) and not a primitive
IsObject(v) == "type" \notin DOMAIN v

\* Mutant: an invalid DateTime throws (luxon's Settings.throwOnInvalid)
callbackThrowsOnInvalidDate(ver, env, article) ==
    /\ ~showAllArticles(ver, env)
    /\ ~fromJSDate(Get(article.data, "date")).valid

\* The filter callback throws on an article: article.data.date and
\* "published" in article.data need article.data to be an object
callbackThrows(ver, env, article) ==
    /\ ~showAllArticles(ver, env)
    /\ ~IsObject(article.data)

\* The error that ends a filter pass over input, or "none"
passError(ver, env, input) ==
    IF \E i \in DOMAIN input : callbackThrows(ver, env, input[i])
    THEN "TypeError"
    ELSE "none"

\* Mutant: the second filter pass of a build reuses what the first one read
readBuildDraftsMemoized == IF pc = "latestArticles" THEN envA ELSE BUILD_DRAFTS

\* The value of process.env.BUILD_DRAFTS that a filter pass reads
readBuildDrafts == BUILD_DRAFTS

\* The non-decreasing sequences of n clock readings in lo..hi
RECURSIVE ClockReadings(_, _, _)
ClockReadings(n, lo, hi) ==
    IF n = 0 THEN {<<>>}
    ELSE UNION {{<<t>> \o s : s \in ClockReadings(n - 1, t, hi)} : t \in lo..hi}

\* The clock after the readings reads
ClockAfter(reads) == IF reads = <<>> THEN clock ELSE reads[Len(reads)]

----------------------------------------------------------------------------
(* The filter filterTagList *)

\* What a template passes as tags: nothing, null or an array of strings
NoTags == [type |-> "undefined", elems |-> <<>>]
NullTags == [type |-> "null", elems |-> <<>>]
ArrayOf(seq) == [type |-> "array", elems |-> seq]

\* The tags of the site: the four reserved ones and others, one of which
\* differs from a reserved tag by its case only
TagNames == {"article", "articles", "nav", "all", "eleventy", "Nav"}

TagInputs ==
    {NoTags, NullTags}
        \cup UNION {{ArrayOf(seq) : seq \in [1..n -> TagNames]} : n \in 0..MaxTags}

\* ["article", "articles", "nav", "all"]
reservedTags == <<"article", "articles", "nav", "all">>

\* Mutant: the search starts at the second element
indexOfFromSecond(arr, x) ==
    IF \E i \in 2..Len(arr) : arr[i] = x
    THEN (CHOOSE i \in 2..Len(arr) :
              arr[i] = x /\ \A j \in 2..(i - 1) : arr[j] # x) - 1
    ELSE 0 - 1

\* arr.indexOf(x): the first index, from 0, of an element === x, or -1
indexOf(arr, x) ==
    IF \E i \in 1..Len(arr) : arr[i] = x
    THEN (CHOOSE i \in 1..Len(arr) :
              arr[i] = x /\ \A j \in 1..(i - 1) : arr[j] # x) - 1
    ELSE 0 - 1

\* tags || []: an array is truthy, also when it is empty
tagsOrEmpty(value) ==
    IF value.type \in {"undefined", "null"} THEN <<>> ELSE value.elems

\* function filterTagList(tags)
filterTagList(value) ==
    LET arr == tagsOrEmpty(value)
    IN  filter(arr, [i \in 1..Len(arr) |-> indexOf(reservedTags, arr[i]) = 0 - 1])

----------------------------------------------------------------------------
(* The list template *)

\* Mutant: a date equal to the clock reading counts as in the future
isDateInFutureOrNow(value, t) ==
    LET date == fromJSDate(value)
        now == utc(t)
    IN  GreaterEq(date, now)

\* The filter isDateInFuture on value, the clock reading t
isDateInFuture(value, t) ==
    LET date == fromJSDate(value)
        now == utc(t)
    IN  Greater(date, now)

\* Mutant: the ready badge does not look at the published flag
statusBadgesAnyFlag(post, t) ==
    [draft |-> ~Truthy(Get(post.data, "published")),
     ready |-> isDateInFuture(Get(post.data, "date"), t)]

\* The badges of one article in the macro articles(list):
\*   {% if not post.data.published %} draft
\*   {% if post.data.date | isDateInFuture and post.data.published %} ready
statusBadges(post, t) ==
    [draft |-> ~Truthy(Get(post.data, "published")),
     ready |-> /\ isDateInFuture(Get(post.data, "date"), t)
               /\ Truthy(Get(post.data, "published"))]

----------------------------------------------------------------------------
(* The process *)

HostZones == {-1, 0, 1}

InitEnv ==
    /\ version \in Versions
    /\ runMode \in RunModes
    /\ BUILD_DRAFTS \in EnvValues
    /\ pc = "config"
    /\ build = 1
    /\ articles = <<>>
    /\ latestArticles = <<>>
    /\ nowA = <<>>
    /\ nowL = <<>>
    /\ envA = Undefined
    /\ envL = Undefined
    /\ thrown = "none"
    /\ badges = <<>>
    /\ nowR = <<>>
    /\ listedBefore = {}
    /\ tagList = <<>>
    /\ applied = 0

\* A small site of any kind of article, or a large site built while the
\* clock has one more instant to go
InitSite ==
    \/ /\ clock \in 0..MaxTime
       /\ items \in ItemLists
    \/ /\ clock \in (MaxTime - 1)..MaxTime
       /\ items \in LongItemLists

\* A process on a host in UTC
Init ==
    /\ InitEnv
    /\ InitSite
    /\ hostZone = 0
    /\ tags = NoTags

\* A process on a host in any timezone
InitZone ==
    /\ InitEnv
    /\ InitSite
    /\ hostZone \in HostZones
    /\ tags = NoTags

\* Mutant: the run mode check looks for another mode
ConfigOtherMode ==
    /\ pc = "config"
    /\ pc' = "before"
    /\ BUILD_DRAFTS' = IF version = "eleventy" /\ runMode = "watch"
                       THEN Str("true")
                       ELSE BUILD_DRAFTS
    /\ UNCHANGED <<version, runMode, clock, items, build,
                   articles, latestArticles, nowA, nowL, envA, envL,
                   thrown, hostZone, badges, nowR, listedBefore,
                   tags, tagList, applied>>

\* Mutant: the run mode check has an else branch that deletes the flag
ConfigClearsFlag ==
    /\ pc = "config"
    /\ pc' = "before"
    /\ BUILD_DRAFTS' = IF version = "eleventy"
                       THEN IF runMode = "serve" THEN Str("true") ELSE Undefined
                       ELSE BUILD_DRAFTS
    /\ UNCHANGED <<version, runMode, clock, items, build,
                   articles, latestArticles, nowA, nowL, envA, envL,
                   thrown, hostZone, badges, nowR, listedBefore,
                   tags, tagList, applied>>

\* module.exports = function (config) { ... }: registers the filters and the
\* collections; .eleventy.js ends with the ELEVENTY_RUN_MODE check.
Config ==
    /\ pc = "config"
    /\ pc' = "before"
    /\ BUILD_DRAFTS' = IF version = "eleventy" /\ runMode = "serve"
                       THEN Str("true")
                       ELSE BUILD_DRAFTS
    /\ UNCHANGED <<version, runMode, clock, items, build,
                   articles, latestArticles, nowA, nowL, envA, envL,
                   thrown, hostZone, badges, nowR, listedBefore,
                   tags, tagList, applied>>

\* Mutant: the listener is attached once the first build has started, so the
\* event of the first build is missed
EleventyBeforeLate ==
    /\ pc = "before"
    /\ pc' = "articles"
    /\ BUILD_DRAFTS' = IF /\ version = "part000"
                          /\ runMode \in {"serve", "watch"}
                          /\ build > 1
                       THEN Str("true")
                       ELSE BUILD_DRAFTS
    /\ UNCHANGED <<version, runMode, clock, items, build,
                   articles, latestArticles, nowA, nowL, envA, envL,
                   thrown, hostZone, badges, nowR, listedBefore,
                   tags, tagList, applied>>

\* The "eleventy.before" event; only part_000 listens to it.  Assigning the
\* boolean true to a process.env key stores the string "true".
EleventyBefore ==
    /\ pc = "before"
    /\ pc' = "articles"
    /\ BUILD_DRAFTS' = IF version = "part000" /\ runMode \in {"serve", "watch"}
                       THEN Str("true")
                       ELSE BUILD_DRAFTS
    /\ UNCHANGED <<version, runMode, clock, items, build,
                   articles, latestArticles, nowA, nowL, envA, envL,
                   thrown, hostZone, badges, nowR, listedBefore,
                   tags, tagList, applied>>

\* The clock readings of one filter pass: none when every article is kept
\* before the clock is read
PassReadings(env) ==
    IF showAllArticles(version, env)
    THEN {[i \in 1..Len(items) |-> clock]}
    ELSE ClockReadings(Len(items), clock, MaxTime)

\* Mutant: the sort is applied to the array the tag lookup returned
ArticlesSortsInput ==
    /\ pc = "articles"
    /\ pc' = "latestArticles"
    /\ \E reads \in PassReadings(readBuildDrafts) :
          /\ articles' = selectPublished(version, readBuildDrafts, items, reads)
          /\ nowA' = reads
          /\ clock' = ClockAfter(reads)
    /\ items' = sort(items)
    /\ envA' = BUILD_DRAFTS
    /\ UNCHANGED <<version, runMode, BUILD_DRAFTS, build,
                   latestArticles, nowL, envL,
                   thrown, hostZone, badges, nowR, listedBefore,
                   tags, tagList, applied>>

\* config.addCollection("articles", ...): filter and sort work on new arrays
Articles ==
    /\ pc = "articles"
    /\ \E reads \in PassReadings(readBuildDrafts) :
          LET err == passError(version, readBuildDrafts, items)
          IN  /\ thrown' = err
              /\ pc' = IF err = "none" THEN "latestArticles" ELSE "failed"
              /\ articles' =
                    IF err = "none"
                    THEN selectPublished(version, readBuildDrafts, items, reads)
                    ELSE <<>>
              /\ nowA' = reads
              /\ clock' = ClockAfter(reads)
    /\ envA' = BUILD_DRAFTS
    /\ UNCHANGED <<version, runMode, BUILD_DRAFTS, items, build,
                   latestArticles, nowL, envL,
                   hostZone, badges, nowR, listedBefore,
                   tags, tagList, applied>>

\* config.addCollection("latestArticles", ...)
LatestArticles ==
    /\ pc = "latestArticles"
    /\ \E reads \in PassReadings(readBuildDrafts) :
          LET err == passError(version, readBuildDrafts, items)
          IN  /\ thrown' = err
              /\ pc' = IF err = "none" THEN "render" ELSE "failed"
              /\ latestArticles' =
                    IF err = "none"
                    THEN selectLatest(version, readBuildDrafts, items, reads,
                                      LatestLimit)
                    ELSE <<>>
              /\ nowL' = reads
              /\ clock' = ClockAfter(reads)
    /\ envL' = BUILD_DRAFTS
    /\ UNCHANGED <<version, runMode, BUILD_DRAFTS, items, build,
                   articles, nowA, envA,
                   hostZone, badges, nowR, listedBefore,
                   tags, tagList, applied>>

\* The list page: the macro articles(collections.articles) renders the
\* badges of every listed article; isDateInFuture reads the clock per call.
Render ==
    /\ pc = "render"
    /\ pc' = "done"
    /\ \E reads \in ClockReadings(Len(articles), clock, MaxTime) :
          /\ badges' = [i \in 1..Len(articles) |->
                            statusBadges(articles[i], reads[i])]
          /\ nowR' = reads
          /\ clock' = ClockAfter(reads)
    /\ UNCHANGED <<version, runMode, BUILD_DRAFTS, items, build,
                   articles, latestArticles, nowA, nowL, envA, envL,
                   thrown, hostZone, listedBefore,
                   tags, tagList, applied>>

\* A serve/watch session builds again: the event fires and the collections
\* are computed anew.
Rebuild ==
    /\ pc = "done"
    /\ runMode \in {"serve", "watch"}
    /\ build < MaxBuilds
    /\ pc' = "before"
    /\ build' = build + 1
    /\ articles' = <<>>
    /\ latestArticles' = <<>>
    /\ nowA' = <<>>
    /\ nowL' = <<>>
    /\ envA' = Undefined
    /\ envL' = Undefined
    /\ badges' = <<>>
    /\ nowR' = <<>>
    /\ listedBefore' = {articles[i].id : i \in DOMAIN articles}
    /\ UNCHANGED <<version, runMode, BUILD_DRAFTS, clock, items,
                   thrown, hostZone, tags, tagList, applied>>

\* The scheduled deployment builds the site again, later, in a new process
\* with the same environment.
ScheduledBuild ==
    /\ pc = "done"
    /\ runMode = "build"
    /\ build < MaxBuilds
    /\ pc' = "config"
    /\ build' = build + 1
    /\ \E t \in clock..MaxTime : clock' = t
    /\ articles' = <<>>
    /\ latestArticles' = <<>>
    /\ nowA' = <<>>
    /\ nowL' = <<>>
    /\ envA' = Undefined
    /\ envL' = Undefined
    /\ badges' = <<>>
    /\ nowR' = <<>>
    /\ listedBefore' = {articles[i].id : i \in DOMAIN articles}
    /\ thrown' = "none"
    /\ UNCHANGED <<version, runMode, BUILD_DRAFTS, items, hostZone,
                   tags, tagList, applied>>

Next ==
    \/ Config
    \/ EleventyBefore
    \/ Articles
    \/ LatestArticles
    \/ Render
    \/ Rebuild
    \/ ScheduledBuild

Spec == Init /\ [][Next]_vars

SpecZone == InitZone /\ [][Next]_vars

\* Other code of the process assigns process.env.BUILD_DRAFTS between the
\* two filter passes of a build, once: in the first build of the process.
SetEnv ==
    /\ pc = "latestArticles"
    /\ build = 1
    /\ \E v \in EnvValues : BUILD_DRAFTS' = v
    /\ BUILD_DRAFTS' # BUILD_DRAFTS
    /\ UNCHANGED <<version, runMode, clock, items, pc, build,
                   articles, latestArticles, nowA, nowL, envA, envL,
                   thrown, hostZone, badges, nowR, listedBefore,
                   tags, tagList, applied>>

NextEnv ==
    \/ Next
    \/ SetEnv

SpecEnv == Init /\ [][NextEnv]_vars

\* A template of a build of an empty site is about to pass a value to
\* filterTagList
InitTags ==
    /\ InitEnv
    /\ version = "eleventy"
    /\ runMode = "build"
    /\ BUILD_DRAFTS = Undefined
    /\ clock = 0
    /\ items = <<>>
    /\ hostZone = 0
    /\ tags \in TagInputs

\* {{ tags | filterTagList }}, and the filter applied to its own result
FilterTagList ==
    /\ applied < 2
    /\ applied' = applied + 1
    /\ tagList' = IF applied = 0 THEN filterTagList(tags)
                                 ELSE filterTagList(ArrayOf(tagList))
    /\ UNCHANGED <<version, runMode, BUILD_DRAFTS, clock, items, pc, build,
                   articles, latestArticles, nowA, nowL, envA, envL,
                   thrown, hostZone, badges, nowR, listedBefore, tags>>

NextTags == FilterTagList

SpecTags == InitTags /\ [][NextTags]_vars

----------------------------------------------------------------------------
(* Vocabulary of the properties *)

\* The "articles" collection of the current build has been computed
ArticlesDone == pc \in {"latestArticles", "render", "done"}

\* The "latestArticles" collection of the current build has been computed
LatestDone == pc \in {"render", "done"}

\* Draft mode (showAllArticles) for the value env of BUILD_DRAFTS
DraftMode(env) ==
    \/ version = "eleventy" /\ env.type = "string" /\ env.s = "true"
    \/ version = "part000" /\ env.type = "string" /\ env.s # ""

\* The identities of the articles of a sequence
Ids(seq) == {seq[i].id : i \in DOMAIN seq}

HasPublished(article) == "published" \in DOMAIN article.data
HasDate(article) == "date" \in DOMAIN article.data

\* published === true
PublishedIsTrue(article) ==
    HasPublished(article) /\ article.data["published"] = [type |-> "boolean", s |-> "", n |-> 1]

\* published is absent, false, null or another falsy value
PublishedIsFalsy(article) ==
    \/ ~HasPublished(article)
    \/ article.data["published"].type \in {"undefined", "null"}
    \/ article.data["published"].type = "boolean" /\ article.data["published"].n = 0
    \/ article.data["published"].type = "string" /\ article.data["published"].s = ""

\* The front matter date is a date at or before the instant t
DatedBy(article, t) ==
    HasDate(article) /\ article.data["date"].type = "Date" /\ article.data["date"].n <= t

\* seq is in non-increasing order of date, articles of one date in input order
SortedStable(seq) ==
    \A i, j \in DOMAIN seq :
        i < j => \/ seq[i].date.n > seq[j].date.n
                 \/ seq[i].date.n = seq[j].date.n /\ seq[i].id < seq[j].id

----------------------------------------------------------------------------
(* C1 *)

\* C1 as stated: in production mode every article of "articles" has
\* published === true and a date at or before now.
C1_AsStated ==
    (ArticlesDone /\ ~DraftMode(envA)) =>
        \A i \in DOMAIN articles :
            /\ PublishedIsTrue(articles[i])
            /\ DatedBy(articles[i], clock)

\* C1 amended: in production mode every article of "articles" has a published
\* field that is present and truthy, and a front matter date at or before the
\* clock reading its filter call compared it with (hence before now).
C1_PublishedAndDue ==
    (ArticlesDone /\ ~DraftMode(envA)) =>
        \A i \in DOMAIN articles :
            /\ ~PublishedIsFalsy(articles[i])
            /\ DatedBy(articles[i], nowA[articles[i].id])
            /\ DatedBy(articles[i], clock)

\* A production build lists an article whose published field is the string
\* "yes".
C1_Witness ==
    /\ ArticlesDone /\ ~DraftMode(envA)
    /\ \E i \in DOMAIN articles :
          /\ ~PublishedIsTrue(articles[i])
          /\ articles[i].data["published"].type = "string"

----------------------------------------------------------------------------
(* C2 *)

\* C2 as stated: in production mode every article whose published field is
\* not the boolean true is left out of "articles".
C2_AsStated ==
    (ArticlesDone /\ ~DraftMode(envA)) =>
        \A i \in DOMAIN items :
            ~PublishedIsTrue(items[i]) => items[i].id \notin Ids(articles)

\* C2 amended: in production mode every article whose published field is
\* absent or falsy (false, null, undefined, the empty string) is left out of
\* "articles", whatever its date.
C2_FalsyExcluded ==
    (ArticlesDone /\ ~DraftMode(envA)) =>
        \A i \in DOMAIN items :
            PublishedIsFalsy(items[i]) => items[i].id \notin Ids(articles)

\* A production build of a large site leaves out the due articles whose
\* published field is false and lists the others.
C2_Witness ==
    /\ ArticlesDone /\ ~DraftMode(envA)
    /\ \E i \in DOMAIN items :
          /\ PublishedIsFalsy(items[i])
          /\ DatedBy(items[i], nowA[i])
          /\ items[i].id \notin Ids(articles)
    /\ articles # <<>>

----------------------------------------------------------------------------
(* C3 *)

\* C3: in production mode every article whose date is strictly after the
\* instant its filter call read is left out of "articles", also when its
\* published flag is true.
C3_FutureExcluded ==
    (ArticlesDone /\ ~DraftMode(envA)) =>
        \A i \in DOMAIN items :
            items[i].date.n > nowA[i] => items[i].id \notin Ids(articles)

\* A production build leaves out an article with published true and a future
\* date and lists another article.
C3_Witness ==
    /\ ArticlesDone /\ ~DraftMode(envA)
    /\ \E i \in DOMAIN items :
          /\ PublishedIsTrue(items[i])
          /\ HasDate(items[i])
          /\ items[i].date.n > nowA[i]
          /\ items[i].id \notin Ids(articles)
    /\ articles # <<>>

----------------------------------------------------------------------------
(* C4 *)

\* C4: in draft mode "articles" holds every input article exactly once,
\* unchanged, in non-increasing order of date.
C4_DraftModeKeepsAll ==
    (ArticlesDone /\ DraftMode(envA)) =>
        /\ Len(articles) = Len(items)
        /\ Ids(articles) = Ids(items)
        /\ \A i \in DOMAIN articles : articles[i] = items[articles[i].id]
        /\ \A i, j \in DOMAIN articles :
              i < j => articles[i].date.n >= articles[j].date.n

\* A draft-mode build of a large site lists all ten articles, unpublished
\* and future-dated ones among them, and had to reorder the input.
C4_Witness ==
    /\ ArticlesDone /\ DraftMode(envA)
    /\ Len(items) = 10
    /\ Len(articles) = 10
    /\ \E i \in DOMAIN articles : PublishedIsFalsy(articles[i])
    /\ \E i \in DOMAIN articles : articles[i].date.n > clock
    /\ articles[1].id # 1

----------------------------------------------------------------------------
(* C5 *)

\* C5: in both modes "articles" and "latestArticles" are in non-increasing
\* order of date, and articles of equal date keep their input order.
C5_SortedStable ==
    /\ ArticlesDone => SortedStable(articles)
    /\ LatestDone => SortedStable(latestArticles)

\* A production build of ten articles whose dates alternate lists the later
\* five in input order before the earlier five in input order.
C5_Witness ==
    /\ LatestDone /\ ~DraftMode(envA)
    /\ Len(articles) = 10
    /\ articles[1].date.n > articles[6].date.n
    /\ <<articles[1].id, articles[2].id, articles[5].id>> = <<2, 4, 10>>
    /\ <<articles[6].id, articles[7].id, articles[10].id>> = <<1, 3, 9>>

----------------------------------------------------------------------------
(* C6 *)

\* The articles that pass the production filter at the clock readings reads
Passing(reads) ==
    {i \in DOMAIN items :
        ~PublishedIsFalsy(items[i]) /\ DatedBy(items[i], reads[i])}

\* C6 as stated: within one build "latestArticles" is "articles" cut to its
\* first 9 elements.
C6_AsStated ==
    LatestDone =>
        latestArticles = SubSeq(articles, 1, Min(LatestLimit, Len(articles)))

----------------------------------------------------------------------------
(* C7 *)

\* C7: "latestArticles" never holds more than 9 articles; it holds
\* min(9, number of articles that pass the filter) of them, all of them when
\* no more than 9 pass, and a limit of 0 gives the empty sequence.
C7_AtMostLimit ==
    LatestDone =>
        LET passed == IF DraftMode(envL) THEN DOMAIN items ELSE Passing(nowL)
        IN  /\ Len(latestArticles) <= LatestLimit
            /\ Len(latestArticles) = Min(LatestLimit, Cardinality(passed))
            /\ Ids(latestArticles) \subseteq passed
            /\ Cardinality(passed) <= LatestLimit => Ids(latestArticles) = passed
            /\ selectLatest(version, envL, items, nowL, 0) = <<>>

\* A production build in which more than 9 articles pass the filter lists
\* the first 9 of them.
C7_Witness ==
    /\ LatestDone /\ ~DraftMode(envL)
    /\ Cardinality(Passing(nowL)) > LatestLimit
    /\ Len(latestArticles) = LatestLimit

----------------------------------------------------------------------------
(* C8 *)

\* C8: in a serve run every filter pass of every build runs in draft mode:
\* from the first pass on BUILD_DRAFTS stays set, and both collections keep
\* every article.
C8_ServeAlwaysDrafts ==
    runMode = "serve" =>
        /\ pc \in {"articles", "latestArticles", "render", "done"} => DraftMode(BUILD_DRAFTS)
        /\ ArticlesDone => DraftMode(envA) /\ Len(articles) = Len(items)
        /\ LatestDone =>
              /\ DraftMode(envL)
              /\ Len(latestArticles) = Min(LatestLimit, Len(items))

\* The second build of a serve run that started with BUILD_DRAFTS unset or
\* "false" lists an article without a published field.
C8_Witness ==
    /\ runMode = "serve"
    /\ build = 2
    /\ LatestDone
    /\ \E i \in DOMAIN articles : ~HasPublished(articles[i])
    /\ \E i \in DOMAIN latestArticles : ~HasPublished(latestArticles[i])

----------------------------------------------------------------------------
(* C9 *)

\* C9 as stated: draft mode is on in a watch run and in a serve run, and off
\* in a build run that was given no BUILD_DRAFTS.
C9_AsStated ==
    pc \in {"articles", "latestArticles", "render", "done"} =>
        /\ runMode \in {"serve", "watch"} => DraftMode(BUILD_DRAFTS)
        /\ (runMode = "build" /\ BUILD_DRAFTS.type = "undefined")
              => ~DraftMode(BUILD_DRAFTS)

----------------------------------------------------------------------------
(* C10 *)

\* C10: each filter pass goes by the value BUILD_DRAFTS has when the pass
\* runs: the pass keeps every article when that value means draft mode, and
\* exactly the articles that pass the production filter otherwise
\* ("latestArticles": the first 9 of them).
C10_FlagReadPerCall ==
    /\ ArticlesDone =>
          Ids(articles) = IF DraftMode(envA) THEN DOMAIN items ELSE Passing(nowA)
    /\ LatestDone =>
          LET passed == IF DraftMode(envL) THEN DOMAIN items ELSE Passing(nowL)
          IN  /\ Ids(latestArticles) \subseteq passed
              /\ Cardinality(Ids(latestArticles)) =
                    Min(LatestLimit, Cardinality(passed))

\* BUILD_DRAFTS changed between the two filter passes of a build on a small
\* site: one pass kept every article, the other left some out.
C10_Witness ==
    /\ LatestDone
    /\ Len(items) <= LatestLimit
    /\ DraftMode(envA) # DraftMode(envL)
    /\ Len(articles) # Len(latestArticles)

----------------------------------------------------------------------------
(* C11 *)

\* The front matter of the article lacks a date, or has one that is not a
\* date, or lacks the published field
Malformed(article) ==
    \/ ~HasDate(article)
    \/ article.data["date"].type # "Date"
    \/ ~HasPublished(article)

\* C11: no filter pass fails, and in production mode every article with a
\* missing or malformed date or a missing published field is left out of
\* "articles" and of "latestArticles".
C11_NeverFails ==
    /\ thrown = "none"
    /\ pc # "failed"
    /\ (ArticlesDone /\ ~DraftMode(envA)) =>
          \A i \in DOMAIN items :
              Malformed(items[i]) => items[i].id \notin Ids(articles)
    /\ (LatestDone /\ ~DraftMode(envL)) =>
          \A i \in DOMAIN items :
              Malformed(items[i]) => items[i].id \notin Ids(latestArticles)

\* A production build has computed both collections over an article with
\* published true and a quoted string for a date, and lists it in neither.
C11_Witness ==
    /\ LatestDone /\ ~DraftMode(envA) /\ ~DraftMode(envL)
    /\ thrown = "none"
    /\ \E i \in DOMAIN items :
          /\ PublishedIsTrue(items[i])
          /\ HasDate(items[i])
          /\ items[i].data["date"].type = "string"
          /\ items[i].id \notin Ids(articles)
          /\ items[i].id \notin Ids(latestArticles)

----------------------------------------------------------------------------
(* C12 *)

NegativeLimits == {0 - k : k \in 1..MaxNegative}

----------------------------------------------------------------------------
(* C13 *)

\* C13 (two calls of selectPublished on the same snapshot, flag and clock
\* readings return the same sequence) compares an operator with itself and
\* is not stated as a property of the process.

----------------------------------------------------------------------------
(* C14 *)

\* C14: computing "articles" or "latestArticles" leaves the array of the tag
\* lookup as it was: the same articles in the same order, every field
\* of every article unchanged.
C14_InputUnchanged ==
    [][(pc \in {"articles", "latestArticles"}) => (items' = items)]_vars

\* "articles" lists two articles in the opposite order of the input, and the
\* input is still in its own order.
C14_Witness ==
    /\ ArticlesDone
    /\ \A i \in DOMAIN items : items[i].id = i
    /\ \E i, j \in DOMAIN articles : i < j /\ articles[i].id > articles[j].id

----------------------------------------------------------------------------
(* C15 *)

\* C15: whatever the timezone of the host, "articles" is decided by the
\* dates as UTC instants and the UTC clock readings alone: in production
\* mode it lists, newest first, exactly the articles with a truthy published
\* field and a date at or before the reading of their filter call, so two
\* runs that differ only in the host's timezone list the same articles.
C15_ZoneIndependent ==
    ArticlesDone =>
        /\ Ids(articles) = IF DraftMode(envA) THEN DOMAIN items
                                             ELSE Passing(nowA)
        /\ SortedStable(articles)
        /\ \A i \in DOMAIN articles : articles[i] = items[articles[i].id]

\* A production build on a host east or west of UTC lists an article dated
\* exactly at the clock reading and leaves out no article dated after it.
C15_Witness ==
    /\ ArticlesDone /\ ~DraftMode(envA)
    /\ hostZone # 0
    /\ \E i \in DOMAIN articles :
          articles[i].data["date"].n = nowA[articles[i].id]

----------------------------------------------------------------------------
(* C16 *)

\* C16 as stated: for every listed article and the clock reading of its
\* badge, isDateInFuture is true exactly when the date condition of the
\* filter, now >= articleDate, is false.
C16_AsStated ==
    pc = "done" =>
        \A i \in DOMAIN articles :
            LET value == Get(articles[i].data, "date")
            IN  isDateInFuture(value, nowR[i])
                    <=> ~GreaterEq(utc(nowR[i]), fromJSDate(value))

----------------------------------------------------------------------------
(* C17 *)

\* The front matter date is a date strictly after the instant t
DatedAfter(article, t) ==
    HasDate(article) /\ article.data["date"].type = "Date" /\ article.data["date"].n > t

\* C17: on the rendered list every article shows the ready badge exactly
\* when its date is after the clock reading of its badge and its published
\* field is truthy, the draft badge exactly when its published field is
\* absent or falsy, and never both.
C17_Badges ==
    pc = "done" =>
        /\ DOMAIN badges = DOMAIN articles
        /\ \A i \in DOMAIN articles :
              /\ badges[i].ready <=> /\ DatedAfter(articles[i], nowR[i])
                                     /\ ~PublishedIsFalsy(articles[i])
              /\ badges[i].draft <=> PublishedIsFalsy(articles[i])
              /\ ~(badges[i].ready /\ badges[i].draft)

\* A preview lists a future-dated article with the ready badge, a
\* future-dated unpublished article with the draft badge alone.
C17_Witness ==
    /\ pc = "done"
    /\ \E i \in DOMAIN articles : badges[i].ready /\ ~badges[i].draft
    /\ \E j \in DOMAIN articles :
          /\ badges[j].draft /\ ~badges[j].ready
          /\ DatedAfter(articles[j], nowR[j])

----------------------------------------------------------------------------
(* C18 *)

\* C18: in every build of a sequence of scheduled production builds, an
\* article with published true and a date is listed exactly when its date is
\* at or before the clock reading of its filter call: not while the build
\* runs before its date, and always once the build started at or after it.
C18_ListedFromItsDate ==
    (ArticlesDone /\ runMode = "build" /\ ~DraftMode(envA)) =>
        \A i \in DOMAIN items :
            (PublishedIsTrue(items[i]) /\ DatedBy(items[i], MaxTime)) =>
                LET date == items[i].data["date"].n
                    listed == items[i].id \in Ids(articles)
                IN  /\ listed <=> date <= nowA[i]
                    /\ clock < date => ~listed
                    /\ date <= nowA[1] => listed

\* The second of two scheduled production builds lists an article with
\* published true that the first build, run before its date, left out.
C18_Witness ==
    /\ ArticlesDone /\ runMode = "build" /\ ~DraftMode(envA)
    /\ build = 2
    /\ \E i \in DOMAIN items :
          /\ PublishedIsTrue(items[i])
          /\ items[i].id \notin listedBefore
          /\ items[i].id \in Ids(articles)

----------------------------------------------------------------------------
(* C19 *)

\* C19: in production mode an article with published true whose date is
\* exactly the instant its filter call reads is listed in "articles".
C19_BoundaryIncluded ==
    (ArticlesDone /\ ~DraftMode(envA)) =>
        \A i \in DOMAIN items :
            /\ PublishedIsTrue(items[i])
            /\ HasDate(items[i])
            /\ items[i].data["date"] = [type |-> "Date", s |-> "", n |-> nowA[i]]
            => items[i].id \in Ids(articles)

\* A production build of part_000 at a clock after 0 lists an article with
\* published true dated exactly at the reading of its filter call.
C19_Witness ==
    /\ ArticlesDone /\ ~DraftMode(envA)
    /\ version = "part000"
    /\ \E i \in DOMAIN articles :
          /\ PublishedIsTrue(articles[i])
          /\ articles[i].data["date"].n = nowA[articles[i].id]
          /\ nowA[articles[i].id] > 0

----------------------------------------------------------------------------
(* C20 *)

\* The clock readings of a pass that reads the clock once, at its start
StartOfPass(reads) == [i \in DOMAIN reads |-> reads[1]]

\* C20 as stated: in production mode the output of a filter pass is the
\* output of filtering every article against the clock reading taken at the
\* start of the pass.
C20_AsStated ==
    /\ (ArticlesDone /\ ~DraftMode(envA)) =>
          Ids(articles) = Passing(StartOfPass(nowA))
    /\ (LatestDone /\ ~DraftMode(envL)) =>
          Ids(latestArticles) \subseteq Passing(StartOfPass(nowL))

----------------------------------------------------------------------------
(* C21 *)

\* C21: in a serve run the flag is assigned before the first collection
\* callback runs: when a filter pass is about to start BUILD_DRAFTS is the
\* string "true", and no pass of "articles" or "latestArticles" has read it
\* unset, in the first build as in the later ones.
C21_FlagSetBeforeFirstCallback ==
    runMode = "serve" =>
        /\ pc \in {"articles", "latestArticles"} =>
              BUILD_DRAFTS = [type |-> "string", s |-> "true", n |-> 0]
        /\ ArticlesDone => envA.type # "undefined"
        /\ LatestDone => envL.type # "undefined"

\* The first build of a serve run of part_000, whose listener assigns the
\* flag when the build starts, has run both callbacks with the flag "true".
C21_Witness ==
    /\ runMode = "serve"
    /\ version = "part000"
    /\ build = 1
    /\ LatestDone
    /\ envA.type = "string" /\ envA.s = "true"
    /\ envL.type = "string" /\ envL.s = "true"

----------------------------------------------------------------------------
(* C22 *)

\* The run is detected as a preview: serve, and in part_000 watch as well
DetectedAsPreview ==
    \/ runMode = "serve"
    \/ version = "part000" /\ runMode = "watch"

\* C22: in a run that is not detected as a preview no step of the
\* configuration, of the event or of a build changes BUILD_DRAFTS: it is
\* neither set nor cleared.
C22_FlagLeftAlone ==
    [][~DetectedAsPreview => (BUILD_DRAFTS' = BUILD_DRAFTS)]_vars

\* A watch run of .eleventy.js that was given BUILD_DRAFTS = "false" has
\* gone through a whole build and the value is still "false"; both passes
\* read it.
C22_Witness ==
    /\ ~DetectedAsPreview
    /\ runMode = "watch"
    /\ pc = "done"
    /\ BUILD_DRAFTS.type = "string" /\ BUILD_DRAFTS.s = "false"
    /\ envA = BUILD_DRAFTS
    /\ envL = BUILD_DRAFTS

----------------------------------------------------------------------------
(* C23 *)

\* The articles a filter pass keeps when it reads env and the clock readings
\* reads: whatever the version for env unset or "true", and by the version
\* for any other value
KeptFor(env, reads) ==
    CASE env.type = "undefined" -> Passing(reads)
      [] env.type = "string" /\ env.s = "true" -> DOMAIN items
      [] OTHER -> IF version = "eleventy" THEN Passing(reads) ELSE DOMAIN items

\* seq is the first articles, newest first, of the articles kept
FirstOf(seq, kept) ==
    /\ Ids(seq) \subseteq kept
    /\ SortedStable(seq)
    /\ \A i \in kept \ Ids(seq) :
          \A j \in DOMAIN seq :
              \/ seq[j].date.n > items[i].date.n
              \/ seq[j].date.n = items[i].date.n /\ seq[j].id < i

\* C23: a filter pass that reads BUILD_DRAFTS unset or "true" gives the same
\* "articles" and "latestArticles" in both versions (the production list
\* when unset, every article when "true"); on any other non-empty value,
\* such as "false", .eleventy.js gives the production list and part_000
\* every article.
C23_VersionsAgree ==
    /\ ArticlesDone =>
          /\ Ids(articles) = KeptFor(envA, nowA)
          /\ FirstOf(articles, KeptFor(envA, nowA))
    /\ LatestDone =>
          /\ Len(latestArticles) =
                Min(LatestLimit, Cardinality(KeptFor(envL, nowL)))
          /\ FirstOf(latestArticles, KeptFor(envL, nowL))

\* A build of part_000 with BUILD_DRAFTS unset has computed both
\* collections: it lists some articles and leaves others out, as
\* .eleventy.js does.
C23_Witness ==
    /\ LatestDone
    /\ version = "part000"
    /\ envA.type = "undefined" /\ envL.type = "undefined"
    /\ articles # <<>> /\ Len(articles) < Len(items)
    /\ latestArticles # <<>>

----------------------------------------------------------------------------
(* C24 *)

\* seq is made of articles of the input, each at most once
SelectionOfInput(seq) ==
    /\ \A i \in DOMAIN seq :
          /\ seq[i].id \in DOMAIN items
          /\ seq[i] = items[seq[i].id]
    /\ \A i, j \in DOMAIN seq : i # j => seq[i].id # seq[j].id
    /\ Len(seq) <= Len(items)

\* C24: "articles" and "latestArticles" only select and reorder: every
\* element is an article of the input, no article occurs twice, the output
\* is not longer than the input, and in draft mode "articles" is a
\* permutation of the input.
C24_SelectsAndReorders ==
    /\ ArticlesDone =>
          /\ SelectionOfInput(articles)
          /\ DraftMode(envA) =>
                /\ Len(articles) = Len(items)
                /\ Ids(articles) = DOMAIN items
    /\ LatestDone => SelectionOfInput(latestArticles)

\* A production build of a large site has left articles out of "articles"
\* and listed the others in another order than the input; "latestArticles"
\* is shorter still.
C24_Witness ==
    /\ LatestDone /\ ~DraftMode(envA) /\ ~DraftMode(envL)
    /\ Len(articles) < Len(items)
    /\ \E i, j \in DOMAIN articles : i < j /\ articles[i].id > articles[j].id
    /\ latestArticles # <<>>

----------------------------------------------------------------------------
(* C25 *)

\* C25: across the successive builds of a process over the same articles,
\* with a clock that does not go back, every article that the production
\* list of the build before showed is in the production list of this build.
C25_NeverShrinks ==
    (ArticlesDone /\ build > 1 /\ ~DraftMode(envA)) =>
        listedBefore \subseteq Ids(articles)

\* The second production build of a large site lists the articles the first
\* build listed and, the clock having advanced, others as well.
C25_Witness ==
    /\ ArticlesDone /\ build = 2 /\ ~DraftMode(envA)
    /\ listedBefore # {}
    /\ listedBefore \subseteq Ids(articles)
    /\ listedBefore # Ids(articles)
    /\ clock > 0

----------------------------------------------------------------------------
(* C26 *)

\* C26: on the list a production build renders, after its filter pass, no
\* article shows the draft badge and none shows the ready badge.
C26_NoBadgesInProduction ==
    (pc = "done" /\ ~DraftMode(envA)) =>
        \A i \in DOMAIN articles :
            /\ nowR[i] >= nowA[articles[i].id]
            /\ ~badges[i].draft
            /\ ~badges[i].ready

\* A production build has rendered a list with an article dated exactly at
\* the clock reading of its badge.
C26_Witness ==
    /\ pc = "done" /\ ~DraftMode(envA)
    /\ \E i \in DOMAIN articles :
          /\ articles[i].data["date"].n = nowR[i]
          /\ nowR[i] > 0
          /\ ~badges[i].draft /\ ~badges[i].ready

----------------------------------------------------------------------------
(* C27 *)

ReservedTagNames == {"article", "articles", "nav", "all"}

NotReserved(tag) == tag \notin ReservedTagNames

\* The tags of a value: none for undefined and null
TagsGiven(value) == IF value.type = "array" THEN value.elems ELSE <<>>

\* C27: filterTagList returns the tags given without "article", "articles",
\* "nav" and "all", every other tag as often and in the order it was
\* given, the empty list for null and undefined; applied to its own result
\* it returns that result.
C27_ReservedTagsRemoved ==
    applied \in {1, 2} =>
        /\ tagList = SelectSeq(TagsGiven(tags), NotReserved)
        /\ tags.type \in {"undefined", "null"} => tagList = <<>>

\* The filter has been applied twice to an array with a reserved tag between
\* two occurrences of another tag: both occurrences are kept.
C27_Witness ==
    /\ applied = 2
    /\ tags.type = "array"
    /\ Len(tagList) = 2 /\ tagList[1] = tagList[2]
    /\ Len(tags.elems) = 3 /\ tags.elems[2] = "article"

====
